---- MODULE Spec2Model ----
(***************************************************************************)
(* Model of mqtt-benchmark-subscriber: main (orchestrator and result      *)
(* collector), Client.Run (worker receive-and-measure loop), the          *)
(* transport callback onMessage, and calculateTotalResults (aggregator).  *)
(*                                                                         *)
(* Go pointers are modelled as sequences of length at most one: <<>> is   *)
(* nil and <<x>> points to x.  Go slices are indexed from 0, TLA+         *)
(* sequences from 1: slot k of the code is element k+1 of the model.      *)
(* Latencies are float64 conversions of int64 differences; the conversion *)
(* is monotone, so comparisons are modelled on the integers.  Wall-clock  *)
(* durations (RunTime, MsgsPerSec, TotalRunTime) are not modelled.        *)
(* A mean is held as the sum of its sample (every worker's sample has     *)
(* ReceiveCount values, so the scale is the same for all workers), and a  *)
(* sample standard deviation s of n >= 2 values as n(n-1)s^2, which is an *)
(* integer and is 0 exactly when s is; NaN is the not-a-number that the   *)
(* division by n-1 yields for n = 1.                                      *)
(***************************************************************************)
EXTENDS Integers, Sequences, FiniteSets, TLC

\* ---------------------------------------------------------------- bounds
MaxClients == 2
MaxCount == 2
MaxBad == 1
MaxLat == 1

ClientIds == 0..(MaxClients - 1)

\* Payload.GeneratedAt values the publisher sends and the subscriber's clock
\* readings (time.Now().UnixNano()) stamped on arrivals: the publisher's clock
\* may be behind or ahead of the subscriber's, so latencies are 1 or -1.
GenTimes == {0, 2}
RecvTimes == {1}

\* Field values of the result lists handed to the aggregator on its own.
AggLatencies == (0 - MaxLat)..MaxLat
AggSuccesses == {1, 2}
AggDuplicates == {0, 1}

VARIABLES
    clients,            \* flag -clients
    count,              \* flag -count
    clientCert,         \* flag -client-cert is non-empty
    clientKey,          \* flag -client-key is non-empty
    pcMain,             \* position of main
    i,                  \* loop index of main's current for loop
    results,            \* main: results []*RunResults
    totals,             \* main: totals *TotalResults
    pc,                 \* per worker: position of Client.Run
    conn,               \* per worker: state of receiveMessages
    cb,                 \* per worker: message held by onMessage, blocked on `received <-`
    receivedMessages,   \* per worker: the slot array
    receivedSoFar,      \* per worker: the running counter
    started,            \* per worker: start timestamp latched
    runResults,         \* per worker: the RunResults being built
    pushed,             \* per worker: number of completed sends on resCh (history)
    pushSeq,            \* worker IDs in the order their sends on resCh completed (history)
    malformed,          \* number of undecodable frames handed to callbacks (history)
    arrivals            \* per worker: the messages its loop took from `received`, in order (history)

vars == <<clients, count, clientCert, clientKey, pcMain, i, results, totals,
          pc, conn, cb, receivedMessages, receivedSoFar, started, runResults,
          pushed, pushSeq, malformed, arrivals>>

configVars == <<clients, count, clientCert, clientKey>>
mainVars == <<pcMain, i, results, totals>>
workerVars == <<pc, receivedMessages, receivedSoFar, started, runResults>>

\* ---------------------------------------------------------------- pointers
Nil == <<>>
Ptr(x) == <<x>>
Deref(p) == p[1]

\* ---------------------------------------------------------------- data
Message(g, r) == [GeneratedAt |-> g, ReceivedAt |-> r]

ZeroRunResults ==
    [ID |-> 0, Successes |-> 0, MsgTimeMin |-> 0, MsgTimeMax |-> 0,
     MsgTimeMean |-> 0, MsgTimeStd |-> 0, Duplicates |-> 0]

ZeroTotalResults ==
    [Successes |-> 0, MsgTimeMin |-> 0, MsgTimeMax |-> 0,
     MsgTimeMeanStd |-> 0, Duplicates |-> 0]

NilSlice(n) == [k \in 1..n |-> Nil]

RECURSIVE SeqSum(_)
SeqSum(s) == IF s = <<>> THEN 0 ELSE s[1] + SeqSum(Tail(s))

SeqMin(s) == CHOOSE x \in {s[k] : k \in 1..Len(s)} : \A k \in 1..Len(s) : x <= s[k]
SeqMax(s) == CHOOSE x \in {s[k] : k \in 1..Len(s)} : \A k \in 1..Len(s) : x >= s[k]

\* stats.StatsMin / stats.StatsMax over a non-empty sample.
StatsMin(data) == SeqMin(data)
StatsMax(data) == SeqMax(data)

\* stats.StatsMean, held as the sum of the sample
StatsMean(data) == SeqSum(data)

\* the not-a-number of float64; no standard deviation is negative
NaN == 0 - 1

\* stats.StatsSampleStandardDeviation: 0/0 for a sample of one value
StatsSampleStandardDeviation(data) ==
    IF Len(data) < 2 THEN NaN
    ELSE Len(data) * SeqSum([k \in 1..Len(data) |-> data[k] * data[k]])
             - SeqSum(data) * SeqSum(data)

\* ---------------------------------------------------------------- Client.Run
\* latencies[i] = float64(message.ReceivedAt - message.Payload.GeneratedAt)
Latency(m) == m.ReceivedAt - m.GeneratedAt

\* `range receivedMessages` dereferences every slot: a nil slot panics
HasNil(ptrs) == \E k \in 1..Len(ptrs) : ptrs[k] = Nil

LatenciesOf(slots) == [k \in 1..Len(slots) |-> Latency(Deref(slots[k]))]

\* a store that fills the slot array from its far end
CaptureReversed(slots, n, cnt, m) ==
    IF n < cnt THEN [slots EXCEPT ![cnt - n] = Ptr(m)] ELSE slots

\* if receivedSoFar < c.ReceiveCount { receivedMessages[receivedSoFar] = m } else { log }
Capture(slots, n, cnt, m) ==
    IF n < cnt THEN [slots EXCEPT ![n + 1] = Ptr(m)] ELSE slots

\* a counter stepped by two where the code steps it by one
IncrementReceivedByTwo(n) == n + 2

\* receivedSoFar++
IncrementReceived(n) == n + 1

\* a done check with > where the code has >=
IsDoneStrict(n, cnt) == n > cnt

\* if receivedSoFar >= c.ReceiveCount
IsDone(n, cnt) == n >= cnt

\* runResults.Successes = int64(len(receivedMessages))
SuccessesOf(slots) == Len(slots)

\* a Duplicates that forgets to subtract the target count
DuplicatesOfAll(n, cnt) == n

\* runResults.Duplicates = receivedSoFar - c.ReceiveCount
DuplicatesOf(n, cnt) == n - cnt

\* a Run that lacks the return after the push and goes round the loop again
AfterPushLoops == "loop"

\* where Run continues after `res <- runResults`: it returns
AfterPush == "returned"

\* a guard that computes the deviation of a sample of one value too
WorkerStdComputedFromOne(cnt) == cnt >= 1

\* if c.ReceiveCount > 1 { runResults.MsgTimeStd = ... }
WorkerStdComputed(cnt) == cnt > 1

ComputeResults(rr, slots, n, cnt) ==
    LET latencies == LatenciesOf(slots)
    IN  [rr EXCEPT !.Successes = SuccessesOf(slots),
                   !.MsgTimeMin = StatsMin(latencies),
                   !.MsgTimeMax = StatsMax(latencies),
                   !.MsgTimeMean = StatsMean(latencies),
                   !.Duplicates = DuplicatesOf(n, cnt),
                   !.MsgTimeStd = IF WorkerStdComputed(cnt)
                                    THEN StatsSampleStandardDeviation(latencies)
                                    ELSE @]

\* ---------------------------------------------------------------- aggregator
\* a MsgTimeMin left at the zero value, as MsgTimeMax is
InitMsgTimeMinZero(rs) == 0

\* totals.MsgTimeMin = results[0].MsgTimeMin
InitMsgTimeMin(rs) == Deref(rs[1]).MsgTimeMin

\* totals := new(TotalResults): MsgTimeMax starts at the zero value
InitMsgTimeMax(rs) == 0

\* an assignment where the code has +=
AccumulateAssign(total, x) == x

\* totals.X += res.X
Accumulate(total, x) == total + x

\* if res.MsgTimeMin < totals.MsgTimeMin { totals.MsgTimeMin = res.MsgTimeMin }
LowerMin(cur, x) == IF x < cur THEN x ELSE cur

\* if res.MsgTimeMax > totals.MsgTimeMax { totals.MsgTimeMax = res.MsgTimeMax }
RaiseMax(cur, x) == IF x > cur THEN x ELSE cur

RECURSIVE TotalsLoop(_, _, _)
TotalsLoop(rs, k, t) ==
    IF k > Len(rs) THEN t
    ELSE LET res == Deref(rs[k])
         IN  TotalsLoop(rs, k + 1,
                 [t EXCEPT !.Successes = Accumulate(@, res.Successes),
                           !.Duplicates = Accumulate(@, res.Duplicates),
                           !.MsgTimeMin = LowerMin(@, res.MsgTimeMin),
                           !.MsgTimeMax = RaiseMax(@, res.MsgTimeMax)])

\* if sampleSize > 1 { totals.MsgTimeMeanStd = ... }
TotalStdComputed(sampleSize) == sampleSize > 1

calculateTotalResults(rs, sampleSize) ==
    LET msgTimeMeans == [k \in 1..Len(rs) |-> Deref(rs[k]).MsgTimeMean]
        looped == TotalsLoop(rs, 1,
                      [ZeroTotalResults EXCEPT !.MsgTimeMin = InitMsgTimeMin(rs),
                                               !.MsgTimeMax = InitMsgTimeMax(rs)])
    IN  [looped EXCEPT !.MsgTimeMeanStd =
            IF TotalStdComputed(sampleSize)
              THEN StatsSampleStandardDeviation(msgTimeMeans)
              ELSE @]

\* ---------------------------------------------------------------- main
\* a validation whose count checks are off by one and let 0 through
ConfigInvalidBelowZero ==
    \/ clients < 0
    \/ count < 0
    \/ clientCert /\ ~clientKey
    \/ ~clientCert /\ clientKey

\* the four log.Fatal checks after flag.Parse()
ConfigInvalid ==
    \/ clients < 1
    \/ count < 1
    \/ clientCert /\ ~clientKey
    \/ ~clientCert /\ clientKey

\* a spawn loop that gives every client the ID 0
WorkerIDZero(k) == 0

\* c := &Client{ID: i, ...}; Run copies it: runResults.ID = c.ID
WorkerID(k) == k

\* a spawn loop that stops one worker short
SpawnBoundShort(n) == n - 1

\* for i := 0; i < *clients; i++ { ... go c.Run(resCh) }: the loop bound
SpawnBound(n) == n

\* a collect loop that stops one result short
CollectBoundShort(n) == n - 1

\* for i := 0; i < *clients; i++ { results[i] = <-resCh }: the loop bound
CollectBound(n) == n

\* a collector that files each result under its worker's ID
ResultIndexByID(k, res) == res.ID

\* results[i] = <-resCh: the index the received result is stored at
ResultIndex(k, res) == k

\* one received channel made once and handed to every worker
ChannelOfShared(w) == 0

\* received := make(chan *Message) in Run: worker w's callback and loop use the
\* channel that w's own Run made
ChannelOf(w) == w

\* a handler that lacks the else and forwards a Message after a decode error
ForwardsDecodeErrorAlways == TRUE

\* onMessage: `if err != nil { log } else { received <- ... }`: whether a frame that
\* failed to decode is still forwarded to the receive loop
ForwardsDecodeError == FALSE

\* a receiveMessages whose connect/subscribe error aborts the worker, which then
\* reports the result it has
OnConnectErrorAbort(p) == "send"

\* receiveMessages: a Connect or Subscribe error is logged and nothing else; Run's
\* position is what it was
OnConnectError(p) == p

\* goroutines run only while the process lives: log.Fatal, a panic and the return
\* of main end every goroutine
ProcessAlive == pcMain \notin {"fatal", "panic", "exit"}

WorkerInit ==
    /\ pc = [w \in ClientIds |-> "unstarted"]
    /\ conn = [w \in ClientIds |-> "none"]
    /\ cb = [w \in ClientIds |-> Nil]
    /\ receivedMessages = [w \in ClientIds |-> <<>>]
    /\ receivedSoFar = [w \in ClientIds |-> 0]
    /\ started = [w \in ClientIds |-> FALSE]
    /\ runResults = [w \in ClientIds |-> Nil]
    /\ pushed = [w \in ClientIds |-> 0]
    /\ pushSeq = <<>>
    /\ malformed = 0
    /\ arrivals = [w \in ClientIds |-> <<>>]

Init ==
    /\ clients \in 0..MaxClients
    /\ count \in 0..MaxCount
    /\ clientCert \in BOOLEAN
    /\ clientKey \in BOOLEAN
    /\ pcMain = "parse"
    /\ i = 0
    /\ results = <<>>
    /\ totals = Nil
    /\ WorkerInit

\* flag.Parse() and the validation of the flags
Validate ==
    /\ pcMain = "parse"
    /\ pcMain' = IF ConfigInvalid THEN "fatal" ELSE "spawn"
    /\ UNCHANGED <<configVars, i, results, totals, workerVars, conn, cb,
                   pushed, pushSeq, malformed, arrivals>>

\* one iteration of the spawn loop: go c.Run(resCh); Run's prologue allocates the
\* slot array and starts receiveMessages.  Leaving the loop allocates results.
Spawn ==
    /\ pcMain = "spawn"
    /\ i < SpawnBound(clients)
    /\ pc' = [pc EXCEPT ![i] = "loop"]
    /\ conn' = [conn EXCEPT ![i] = "connecting"]
    /\ runResults' = [runResults EXCEPT ![i] = Ptr([ZeroRunResults EXCEPT !.ID = WorkerID(i)])]
    /\ receivedMessages' = [receivedMessages EXCEPT ![i] = NilSlice(count)]
    /\ IF i + 1 < SpawnBound(clients)
         THEN /\ i' = i + 1
              /\ UNCHANGED <<pcMain, results>>
         ELSE /\ i' = 0
              /\ pcMain' = "collect"
              /\ results' = NilSlice(clients)
    /\ UNCHANGED <<configVars, totals, cb, receivedSoFar, started,
                   pushed, pushSeq, malformed, arrivals>>

\* receiveMessages: Connect and Subscribe; an error is only logged
Subscribe(w) ==
    /\ ProcessAlive
    /\ conn[w] = "connecting"
    /\ \E ok \in BOOLEAN :
          /\ conn' = [conn EXCEPT ![w] = IF ok THEN "up" ELSE "failed"]
          /\ pc' = [pc EXCEPT ![w] = IF ok THEN @ ELSE OnConnectError(@)]
    /\ UNCHANGED <<configVars, mainVars, receivedMessages, receivedSoFar, started,
                   runResults, cb, pushed, pushSeq, malformed, arrivals>>

\* onMessage with a payload that json.Unmarshal rejects: logged and dropped
OnMalformed(w) ==
    /\ ProcessAlive
    /\ conn[w] = "up"
    /\ cb[ChannelOf(w)] = Nil
    /\ malformed < MaxBad
    /\ malformed' = malformed + 1
    /\ \E r \in RecvTimes :
          cb' = [cb EXCEPT ![ChannelOf(w)] = IF ForwardsDecodeError THEN Ptr(Message(0, r)) ELSE @]
    /\ UNCHANGED <<configVars, mainVars, workerVars, conn, pushed, pushSeq, arrivals>>

\* onMessage with a well-formed payload: builds the Message and blocks on
\* `received <-` (the router calls the handler for one message at a time)
OnMessage(w) ==
    /\ ProcessAlive
    /\ conn[w] = "up"
    /\ cb[ChannelOf(w)] = Nil
    /\ \E g \in GenTimes, r \in RecvTimes :
          cb' = [cb EXCEPT ![ChannelOf(w)] = Ptr(Message(g, r))]
    /\ UNCHANGED <<configVars, mainVars, workerVars, conn, pushed, pushSeq, malformed,
                   arrivals>>

\* one iteration of Run's for loop, from `m := <-received` to the done check
Receive(w) ==
    /\ ProcessAlive
    /\ pc[w] = "loop"
    /\ cb[ChannelOf(w)] # Nil
    /\ LET m == Deref(cb[ChannelOf(w)])
           slots == Capture(receivedMessages[w], receivedSoFar[w], count, m)
           n == IncrementReceived(receivedSoFar[w])
       IN  /\ receivedMessages' = [receivedMessages EXCEPT ![w] = slots]
           /\ receivedSoFar' = [receivedSoFar EXCEPT ![w] = n]
           /\ started' = [started EXCEPT ![w] = TRUE]
           /\ IF ~IsDone(n, count)
                THEN UNCHANGED <<runResults, pc, pcMain>>
                ELSE IF HasNil(slots)
                THEN /\ pc' = [pc EXCEPT ![w] = "panic"]
                     /\ pcMain' = "panic"
                     /\ UNCHANGED runResults
                ELSE /\ runResults' = [runResults EXCEPT ![w] =
                            Ptr(ComputeResults(Deref(@), slots, n, count))]
                     /\ pc' = [pc EXCEPT ![w] = "send"]
                     /\ UNCHANGED pcMain
    /\ cb' = [cb EXCEPT ![ChannelOf(w)] = Nil]
    /\ arrivals' = [arrivals EXCEPT ![w] = Append(@, Deref(cb[ChannelOf(w)]))]
    /\ UNCHANGED <<configVars, i, results, totals, conn, pushed, pushSeq, malformed>>

\* the rendezvous on the unbuffered resCh: `res <- runResults` in worker w meets
\* `results[i] = <-resCh` in main
Collect(w) ==
    /\ pcMain = "collect"
    /\ i < CollectBound(clients)
    /\ pc[w] = "send"
    /\ results' = [results EXCEPT ![ResultIndex(i, Deref(runResults[w])) + 1] = runResults[w]]
    /\ pc' = [pc EXCEPT ![w] = AfterPush]
    /\ pushed' = [pushed EXCEPT ![w] = @ + 1]
    /\ pushSeq' = Append(pushSeq, w)
    /\ IF i + 1 < CollectBound(clients)
         THEN /\ i' = i + 1
              /\ UNCHANGED pcMain
         ELSE /\ i' = 0
              /\ pcMain' = "aggregate"
    /\ UNCHANGED <<configVars, totals, conn, cb, receivedMessages, receivedSoFar,
                   started, runResults, malformed, arrivals>>

\* totals := calculateTotalResults(results, totalTime, *clients)
Aggregate ==
    /\ pcMain = "aggregate"
    /\ IF HasNil(results)
         THEN /\ pcMain' = "panic"
              /\ UNCHANGED totals
         ELSE /\ totals' = Ptr(calculateTotalResults(results, clients))
              /\ pcMain' = "print"
    /\ UNCHANGED <<configVars, i, results, workerVars, conn, cb, pushed, pushSeq,
                   malformed, arrivals>>

\* printResults(results, totals, *format), then main returns
PrintResults ==
    /\ pcMain = "print"
    /\ pcMain' = "exit"
    /\ UNCHANGED <<configVars, i, results, totals, workerVars, conn, cb,
                   pushed, pushSeq, malformed, arrivals>>

Next ==
    \/ Validate
    \/ Spawn
    \/ \E w \in ClientIds : Subscribe(w)
    \/ \E w \in ClientIds : OnMalformed(w)
    \/ \E w \in ClientIds : OnMessage(w)
    \/ \E w \in ClientIds : Receive(w)
    \/ \E w \in ClientIds : Collect(w)
    \/ Aggregate
    \/ PrintResults

Spec == Init /\ [][Next]_vars

\* The Go scheduler runs every runnable goroutine eventually: main's steps, each
\* worker's loop iteration once a message is offered, and each rendezvous on resCh
\* once a worker is sending.  The broker and the network get no fairness.
Fairness ==
    /\ WF_vars(Validate)
    /\ WF_vars(Spawn)
    /\ WF_vars(Aggregate)
    /\ WF_vars(PrintResults)
    /\ \A w \in ClientIds : WF_vars(Receive(w))
    /\ \A w \in ClientIds : WF_vars(Collect(w))

LiveSpec == Spec /\ Fairness

\* ---------------------------------------------------------------- aggregator alone
\* calculateTotalResults applied to an arbitrary non-empty list of worker results:
\* the state of main at the call, with the workers returned.
AggRunResults ==
    {[ID |-> 0, Successes |-> s, MsgTimeMin |-> lo, MsgTimeMax |-> hi,
      MsgTimeMean |-> lo, MsgTimeStd |-> 0, Duplicates |-> d] :
        s \in AggSuccesses, d \in AggDuplicates,
        lo \in AggLatencies, hi \in AggLatencies}

AggInit ==
    /\ clients \in 1..MaxClients
    /\ count = 1
    /\ clientCert = FALSE
    /\ clientKey = FALSE
    /\ pcMain = "aggregate"
    /\ i = 0
    /\ \E rs \in [1..clients -> {r \in AggRunResults : r.MsgTimeMin <= r.MsgTimeMax}] :
            results = [k \in 1..clients |-> Ptr([rs[k] EXCEPT !.ID = k - 1])]
    /\ totals = Nil
    /\ pc = [w \in ClientIds |-> IF w < clients THEN "returned" ELSE "unstarted"]
    /\ conn = [w \in ClientIds |-> IF w < clients THEN "up" ELSE "none"]
    /\ cb = [w \in ClientIds |-> Nil]
    /\ receivedMessages = [w \in ClientIds |-> <<>>]
    /\ receivedSoFar = [w \in ClientIds |-> 0]
    /\ started = [w \in ClientIds |-> FALSE]
    /\ runResults = [w \in ClientIds |-> Nil]
    /\ pushed = [w \in ClientIds |-> IF w < clients THEN 1 ELSE 0]
    /\ pushSeq = [k \in 1..clients |-> k - 1]
    /\ malformed = 0
    /\ arrivals = [w \in ClientIds |-> <<>>]

AggNext == Aggregate \/ PrintResults

AggSpec == AggInit /\ [][AggNext]_vars

\* ---------------------------------------------------------------- properties
Produced(w) == pc[w] \in {"send", "returned"}

\* well-formed messages the transport has handed to worker w's callback: those the
\* loop has taken plus the one a blocked callback still holds
Delivered(w) == receivedSoFar[w] + Len(cb[w])

AggregationStarted == pcMain \in {"aggregate", "print", "exit"}

ResultField(rs, f) == [k \in 1..Len(rs) |-> Deref(rs[k])[f]]

\* C1: a worker whose transport delivered N+K well-formed messages has produced a
\* result with Duplicates = K.
C1_DuplicatesCountSurplus ==
    \A w \in ClientIds :
        Produced(w) => Deref(runResults[w]).Duplicates = Delivered(w) - count

\* C2: every worker has pushed at most one result onto the result channel, and
\* exactly one once its Run has returned.
C2_OneResultPerWorker ==
    \A w \in ClientIds :
        /\ pushed[w] <= 1
        /\ pc[w] = "returned" => pushed[w] = 1

C2_Witness ==
    \E w \in ClientIds : pc[w] = "returned" /\ pushed[w] = 1 /\ pcMain = "collect"

\* C3: aggregation has started only if exactly W results were received from the
\* result channel and every entry of the result list is filled.
C3_AggregateAfterAllResults ==
    AggregationStarted =>
        /\ Len(pushSeq) = clients
        /\ Len(results) = clients
        /\ ~HasNil(results)

C3_Witness ==
    pcMain = "aggregate" /\ clients = MaxClients /\ Len(pushSeq) = clients

\* C4: a worker has a result ready or pushed only when its receive loop has
\* observed exactly ReceiveCount well-formed messages.
C4_PushOnlyAtCount ==
    \A w \in ClientIds :
        (Produced(w) \/ pushed[w] > 0) => receivedSoFar[w] = count

C4_Witness ==
    \E w \in ClientIds : pushed[w] = 1 /\ receivedSoFar[w] = count /\ count = MaxCount

\* C5 as stated: once all W results are collected, entry i of the result list is
\* the result of worker i.
C5_IndexedByWorkerID ==
    AggregationStarted =>
        \A k \in 1..Len(results) : Deref(results[k]).ID = k - 1

\* C5 amended: entry i of the result list is the result of the worker whose push
\* was the (i+1)-th to complete, and the later entries are still nil.
C5_IndexedByArrival ==
    \A k \in 1..Len(results) :
        IF k <= Len(pushSeq)
          THEN results[k] # Nil /\ Deref(results[k]).ID = pushSeq[k]
          ELSE results[k] = Nil

C5_Witness ==
    /\ AggregationStarted
    /\ clients = 2
    /\ pushSeq = <<1, 0>>
    /\ Deref(results[1]).ID = 1
    /\ Deref(results[2]).ID = 0

\* worker w exists and its transport has handed it at least ReceiveCount
\* well-formed messages
Fed(w) == clients >= 1 /\ (w < clients => pc[w] # "unstarted" /\ Delivered(w) >= count)

\* C6: if every worker is eventually delivered at least ReceiveCount well-formed
\* messages, the collector eventually has W results and aggregation is reached.
C6_CollectorTerminates ==
    (\A w \in ClientIds : <>Fed(w)) => <>(AggregationStarted /\ Len(pushSeq) = clients)

C6_Witness ==
    /\ pcMain = "exit"
    /\ clients = 2
    /\ pushSeq = <<1, 0>>
    /\ \A w \in ClientIds : w < clients => Delivered(w) >= count

\* C7: the aggregate MsgTimeMax is the maximum of the per-worker MsgTimeMax values.
C7_AggregateMaxIsMax ==
    totals # Nil => Deref(totals).MsgTimeMax = SeqMax(ResultField(results, "MsgTimeMax"))

\* C8: the aggregate MsgTimeMin is the minimum of the per-worker MsgTimeMin values.
C8_AggregateMinIsMin ==
    totals # Nil => Deref(totals).MsgTimeMin = SeqMin(ResultField(results, "MsgTimeMin"))

C8_Witness ==
    /\ totals # Nil
    /\ Len(results) = MaxClients
    /\ Deref(results[1]).MsgTimeMin > Deref(results[Len(results)]).MsgTimeMin
    /\ Deref(totals).MsgTimeMin = Deref(results[Len(results)]).MsgTimeMin

\* C9: the aggregate Successes and Duplicates are the sums of the per-worker
\* Successes and Duplicates.
C9_AggregateSums ==
    totals # Nil =>
        /\ Deref(totals).Successes = SeqSum(ResultField(results, "Successes"))
        /\ Deref(totals).Duplicates = SeqSum(ResultField(results, "Duplicates"))

C9_Witness ==
    /\ totals # Nil
    /\ Len(results) = MaxClients
    /\ Deref(results[1]).Duplicates = 0
    /\ Deref(results[2]).Duplicates = 1
    /\ Deref(totals).Duplicates >= 1
    /\ Deref(totals).Successes > Deref(results[Len(results)]).Successes

\* C10: a worker fed exactly ReceiveCount well-formed messages has produced a
\* result with Successes = ReceiveCount and Duplicates = 0.
C10_ExactFeed ==
    \A w \in ClientIds :
        (Produced(w) /\ Delivered(w) = count) =>
            /\ Deref(runResults[w]).Successes = count
            /\ Deref(runResults[w]).Duplicates = 0

C10_Witness ==
    \E w \in ClientIds :
        /\ pc[w] = "returned"
        /\ count = MaxCount
        /\ Delivered(w) = count
        /\ Deref(runResults[w]).Successes = count

\* C11: a callback step that drops a malformed frame changes no worker's counter,
\* slot array, pending message, position or result, so it changes neither whether
\* nor when any worker terminates.
C11_MalformedDropped ==
    [][malformed' # malformed => UNCHANGED <<workerVars, cb, pushed, pushSeq>>]_vars

C11_Witness ==
    \E w \in ClientIds :
        /\ malformed > 0
        /\ pc[w] = "returned"
        /\ receivedSoFar[w] = count
        /\ ~HasNil(receivedMessages[w])

\* C12: a worker whose connect or subscribe failed stays in its receive loop with
\* nothing received and nothing pushed, and aggregation has started only if every
\* worker was delivered at least ReceiveCount well-formed messages.
C12_ConnectFailureStalls ==
    /\ \A w \in ClientIds :
          conn[w] = "failed" =>
              /\ pc[w] = "loop"
              /\ pushed[w] = 0
              /\ receivedSoFar[w] = 0
              /\ ~AggregationStarted
    /\ AggregationStarted =>
          \A w \in ClientIds : w < clients => Delivered(w) >= count

C12_Witness ==
    /\ clients = 2
    /\ pcMain = "collect"
    /\ conn[0] = "failed"
    /\ pc[0] = "loop"
    /\ pc[1] = "returned"

\* C13: a worker result produced with ReceiveCount = 1 has MsgTimeStd = 0, and an
\* aggregate computed with sampleSize = 1 has MsgTimeMeanStd = 0.
C13_DegenerateStdIsZero ==
    /\ \A w \in ClientIds :
          (Produced(w) /\ count = 1) => Deref(runResults[w]).MsgTimeStd = 0
    /\ (totals # Nil /\ clients = 1) => Deref(totals).MsgTimeMeanStd = 0

C13_Witness ==
    /\ count = 1
    /\ clients = 1
    /\ totals # Nil
    /\ Deref(results[1]).MsgTimeStd = 0
    /\ Deref(results[1]).MsgTimeMean # 0
    /\ Deref(totals).MsgTimeMeanStd = 0

\* C14: with a client count below 1, a message count below 1, or exactly one of
\* the certificate and key paths given, main is at its start or has exited fatally:
\* no worker was started and no result was collected or aggregated.
C14_ConfigErrorsFatal ==
    (clients < 1 \/ count < 1 \/ clientCert # clientKey) =>
        /\ pcMain \in {"parse", "fatal"}
        /\ \A w \in ClientIds : pc[w] = "unstarted" /\ conn[w] = "none" /\ pushed[w] = 0
        /\ pushSeq = <<>>
        /\ results = <<>>
        /\ totals = Nil

C14_Witness ==
    /\ pcMain = "fatal"
    /\ clients >= 1
    /\ count >= 1
    /\ clientCert
    /\ ~clientKey

\* C15: while main is in its spawn loop no result has been received, and once a
\* result has been received or awaited every one of the W workers was started.
C15_AllStartedBeforeCollect ==
    /\ pcMain \in {"parse", "spawn"} =>
          /\ pushSeq = <<>>
          /\ \A w \in ClientIds : pushed[w] = 0 /\ pc[w] # "returned"
    /\ (pcMain = "collect" \/ AggregationStarted \/ pushSeq # <<>>) =>
          \A w \in ClientIds : w < clients => pc[w] # "unstarted"

C15_Witness ==
    /\ pcMain = "spawn"
    /\ clients = 2
    /\ pc[0] = "send"
    /\ pc[1] = "unstarted"

Min2(a, b) == IF a < b THEN a ELSE b

\* C16: slot k of a worker, for k below min(receivedSoFar, ReceiveCount), holds the
\* (k+1)-th message its receive loop took, and no step changes a filled slot.
C16_SlotsInArrivalOrder ==
    /\ [](\A w \in ClientIds :
            \A k \in 1..Min2(receivedSoFar[w], Len(receivedMessages[w])) :
                /\ k <= Len(arrivals[w])
                /\ receivedMessages[w][k] = Ptr(arrivals[w][k]))
    /\ [][\A w \in ClientIds :
            \A k \in 1..Len(receivedMessages[w]) :
                receivedMessages[w][k] # Nil =>
                    receivedMessages'[w][k] = receivedMessages[w][k]]_vars

C16_Witness ==
    \E w \in ClientIds :
        /\ receivedSoFar[w] = 2
        /\ Len(arrivals[w]) = 2
        /\ arrivals[w][1] # arrivals[w][2]
        /\ receivedMessages[w] = <<Ptr(arrivals[w][1]), Ptr(arrivals[w][2])>>

\* the state worker w owns: its receive channel, slot array, counter and start
\* timestamp
Owned(w) == <<cb[w], receivedMessages[w], receivedSoFar[w], started[w]>>

\* a step taken by worker w: by its receiveMessages goroutine, its callback, its
\* receive loop or its push
WorkerStep(w) ==
    Subscribe(w) \/ OnMalformed(w) \/ OnMessage(w) \/ Receive(w) \/ Collect(w)

\* C17: a step of worker w leaves the receive channel, slot array, counter and
\* start timestamp of every other worker unchanged.
C17_NoSharedWorkerState ==
    [][\A j \in ClientIds :
          Owned(j)' # Owned(j) => \A w \in ClientIds \ {j} : ~WorkerStep(w)]_vars

C17_Witness ==
    /\ clients = 2
    /\ receivedSoFar[0] = 1
    /\ pc[0] = "loop"
    /\ cb[0] # Nil
    /\ pc[1] = "returned"
    /\ cb[1] # Nil
    /\ arrivals[0] # arrivals[1]

\* C18: with ReceiveCount >= 1 a worker's counter never exceeds ReceiveCount and is
\* below it whenever the loop waits for a message, so the surplus branch is never
\* taken and the slot index is in bounds; when a result exists every slot is
\* filled and its Duplicates is 0; no nil slot is ever dereferenced.
C18_NeverSurplus ==
    \A w \in ClientIds :
        /\ receivedSoFar[w] <= count
        /\ pc[w] = "loop" => receivedSoFar[w] < count
        /\ pc[w] # "panic"
        /\ Produced(w) =>
              /\ receivedSoFar[w] = Len(receivedMessages[w])
              /\ ~HasNil(receivedMessages[w])
              /\ Deref(runResults[w]).Duplicates = 0

C18_Witness ==
    \E w \in ClientIds :
        /\ pc[w] = "send"
        /\ count = MaxCount
        /\ cb[w] # Nil
        /\ Deref(runResults[w]).Duplicates = 0

\* C19: once a worker has pushed its result, a message its callback holds stays
\* held: no step takes it from the channel, and the worker's counter, slot array
\* and result stay as they are; the result counts only the messages the loop took.
C19_LateMessageBlocksForever ==
    /\ [][\A w \in ClientIds :
            pushed[w] > 0 =>
                /\ cb[w] # Nil => cb'[w] = cb[w]
                /\ receivedSoFar'[w] = receivedSoFar[w]
                /\ receivedMessages'[w] = receivedMessages[w]
                /\ arrivals'[w] = arrivals[w]
                /\ runResults'[w] = runResults[w]
                /\ pc'[w] = pc[w]]_vars
    /\ [](\A w \in ClientIds :
            pushed[w] > 0 =>
                Deref(runResults[w]).Successes + Deref(runResults[w]).Duplicates
                    = Len(arrivals[w]))

C19_Witness ==
    \E w \in ClientIds :
        /\ pc[w] = "returned"
        /\ cb[w] # Nil
        /\ pcMain = "exit"
        /\ Delivered(w) = count + 1
        /\ Deref(runResults[w]).Successes + Deref(runResults[w]).Duplicates = count

\* C20: once the collector has received W results, the worker IDs of the list are
\* exactly 0..W-1 with no entry nil or repeated, and every worker has returned.
C20_ResultsArePermutation ==
    AggregationStarted =>
        /\ Len(results) = clients
        /\ ~HasNil(results)
        /\ \A w \in 0..(clients - 1) :
              Cardinality({k \in 1..Len(results) : Deref(results[k]).ID = w}) = 1
        /\ \A w \in ClientIds : w < clients => pc[w] = "returned"

C20_Witness ==
    /\ pcMain = "print"
    /\ clients = MaxClients
    /\ Deref(results[1]).ID # 0
    /\ \A w \in ClientIds : pc[w] = "returned"

====
